---- MODULE Spec2Model ----
(***************************************************************************)
(* systemd-resolved: reconciliation of /etc/resolv.conf with the manager's *)
(* DNS server / search domain collections (manager_read_resolv_conf) and   *)
(* regeneration of /run/systemd/resolve/resolv.conf                        *)
(* (manager_write_resolv_conf), src/resolve/resolved-resolv-conf.c.        *)
(*                                                                         *)
(* A text line is modelled after strstrip() and word splitting: a sequence *)
(* of words.  A leading comment character ('#' or ';') is a word of its    *)
(* own.  A file is a sequence of lines.                                    *)
(***************************************************************************)
EXTENDS Integers, Sequences, FiniteSets, TLC

VARIABLES
    \* ---- Manager fields
    read_resolv_conf,    \* m->read_resolv_conf, the policy flag
    resolv_conf_mtime,   \* m->resolv_conf_mtime
    dns_servers,         \* m->dns_servers: sequence of [addr, type, marked]
    search_domains,      \* m->search_domains: sequence of [addr, type, marked]
    current_dns_server,  \* m->current_dns_server: an address or "none"
    unicast_scope,       \* m->unicast_scope != NULL
    \* ---- file system
    etc,                 \* what /etc/resolv.conf resolves to
    priv,                \* /run/systemd/resolve/resolv.conf (PRIVATE_RESOLV_CONF)
    temp,                \* the file at temp_path of the running manager_write_resolv_conf
    \* ---- control state and locals of the two functions
    pc,                  \* position of the (single) thread of control
    caller,              \* who called manager_read_resolv_conf: "read" or "write"
    t,                   \* local t of manager_read_resolv_conf
    f,                   \* local f of manager_read_resolv_conf: the open file
    dns,                 \* local dns of manager_write_resolv_conf
    domains,             \* local domains of manager_write_resolv_conf
    r_write,             \* local r of manager_write_resolv_conf
    w_failed,            \* the step of manager_write_resolv_conf that failed, or "none"
    unlink_failed,       \* the paths at which an unlink() of lines 268-269 left a file
    \* ---- what the outside observes
    read_exit,           \* how the last manager_read_resolv_conf call ended
    read_ret,            \* its return value
    flushed,             \* dns_cache_flush() was called by that call
    n_unlinked,          \* records that call unlinked
    write_ret,           \* return value of the last manager_write_resolv_conf
    old_priv,            \* PRIVATE_RESOLV_CONF as it was when the writer was called
    observed,            \* last thing a concurrent reader of PRIVATE_RESOLV_CONF saw
    quiet,               \* nothing happened since the last successful writer call
    rerun                \* the running writer call was started with quiet = TRUE

vars == << read_resolv_conf, resolv_conf_mtime, dns_servers, search_domains,
           current_dns_server, unicast_scope, etc, priv, temp, pc, caller, t, f,
           dns, domains, r_write, w_failed, unlink_failed, read_exit, read_ret, flushed,
           n_unlinked, write_ret, old_priv, observed, quiet, rerun >>

manager_vars == << read_resolv_conf, resolv_conf_mtime, dns_servers, search_domains,
                   current_dns_server, unicast_scope >>
write_locals == << dns, domains, r_write, w_failed, unlink_failed >>

----------------------------------------------------------------------------
(* Bounds *)

\* modification timestamps of files range over 1..MaxTime
MaxTime == 2
\* longest server sequence handed to the writer in SpecWriter
MaxServers == 5
\* longest search domain sequence handed to the writer in SpecWriter
MaxDomains == 8

(* Limits of the resolver client, <resolv.h> *)
MAXNS == 3
MAXDNSRCH == 6

\* errno values the environment produces for a failing call (EIO)
Errnos == {5}

\* words in_addr_from_string_auto() accepts
Addresses == {"A", "B", "C"}
\* words accepted as a search domain name
DomainNames == {"x", "y", "z"}

NoFile == [kind |-> "absent"]
\* the reader of PRIVATE_RESOLV_CONF has not looked yet
NotRead == [kind |-> "nothing"]

----------------------------------------------------------------------------
(* Small helpers on sequences *)

RECURSIVE SelectIdx(_, _, _)
\* the subsequence of s at the indices i..Len(s) for which keep[i]
SelectIdx(s, keep, i) ==
    IF i > Len(s) THEN << >>
    ELSE IF keep[i] THEN << s[i] >> \o SelectIdx(s, keep, i + 1)
         ELSE SelectIdx(s, keep, i + 1)

Filter(s, Test(_)) == SelectIdx(s, [i \in 1..Len(s) |-> Test(s[i])], 1)

AddrsOf(list) == {list[i].addr : i \in 1..Len(list)}

----------------------------------------------------------------------------
(* Collaborators of resolved-resolv-conf.c: the record collections.        *)
(* A record is [addr, type, marked]; type is "system" for a record that    *)
(* came from /etc/resolv.conf (DNS_SERVER_SYSTEM) and "other" otherwise.   *)

Record(a, ty) == [addr |-> a, type |-> ty, marked |-> FALSE]

\* dns_server_mark_all / dns_search_domain_mark_all
mark_all(list) ==
    [i \in 1..Len(list) |->
        IF list[i].type = "system" THEN [list[i] EXCEPT !.marked = TRUE] ELSE list[i]]

IsUnmarked(rec) == ~rec.marked
IsNotSystem(rec) == rec.type # "system"

\* dns_server_unlink_marked / dns_search_domain_unlink_marked
unlink_marked(list) == Filter(list, IsUnmarked)

\* dns_server_unlink_all / dns_search_domain_unlink_all
unlink_all(list) == Filter(list, IsNotSystem)

\* add a record for address a, or drop the mark of the record that has it
add_or_unmark(list, a) ==
    IF \E i \in 1..Len(list) : list[i].addr = a
    THEN [i \in 1..Len(list) |->
            IF list[i].addr = a THEN [list[i] EXCEPT !.marked = FALSE] ELSE list[i]]
    ELSE Append(list, Record(a, "system"))

\* manager_add_dns_server_by_string(m, DNS_SERVER_SYSTEM, a): a is the rest of
\* the line; it parses when it is exactly one accepted address
manager_add_dns_server_by_string(list, a) ==
    IF Len(a) = 1 /\ a[1] \in Addresses
    THEN [r |-> 0, list |-> add_or_unmark(list, a[1])]
    ELSE [r |-> -22, list |-> list]

RECURSIVE manager_parse_search_domains_and_warn(_, _)
\* manager_parse_search_domains_and_warn(m, a): every word of a that is a
\* domain name is added or unmarked; a word that is none is skipped
manager_parse_search_domains_and_warn(list, a) ==
    IF a = << >> THEN [r |-> 0, list |-> list]
    ELSE LET rest == manager_parse_search_domains_and_warn(
                         IF a[1] \in DomainNames THEN add_or_unmark(list, a[1]) ELSE list,
                         Tail(a))
         IN  [r |-> IF a[1] \in DomainNames THEN rest.r ELSE -22, list |-> rest.list]

\* manager_set_dns_server(m, first)
manager_set_dns_server(list) == IF list = << >> THEN "none" ELSE list[1].addr

----------------------------------------------------------------------------
(* The file system as the two functions see it *)

\* stat() of a path that holds file record e
FileRec(e) == e.kind = "file"

\* what "/etc/resolv.conf" resolves to: itself, or PRIVATE_RESOLV_CONF when it
\* is a link to it (a dangling link resolves to nothing: ENOENT)
Resolve(e, p) == IF e.kind = "alias" THEN p ELSE e

----------------------------------------------------------------------------
(* manager_read_resolv_conf *)

\* lines 59-62 with the comparison written as "is the file older than what we saw"
SeenAlready_older(tt, mtime) == tt < mtime

\* lines 59-62: have we already seen the file?
SeenAlready(tt, mtime) == tt = mtime

\* lines 64-68 with the test for our own file left out
IsOwnFile_omitted(st, own) == FALSE

\* lines 64-68: is it symlinked to our own file?
IsOwnFile(st, own) == FileRec(own) /\ st.ino = own.ino

\* lines 91-111 without line 104: "domain" lines are not looked at
process_line_nodomain(c, l) ==
    IF l = << >> THEN c
    ELSE IF l[1] \in {"#", ";"} THEN c
    ELSE IF l[1] = "nameserver"
         THEN [c EXCEPT !.servers = manager_add_dns_server_by_string(c.servers, Tail(l)).list]
    ELSE IF l[1] = "search"
         THEN [c EXCEPT !.domains = manager_parse_search_domains_and_warn(c.domains, Tail(l)).list]
    ELSE c

\* lines 91-111: one iteration of FOREACH_LINE on the stripped line l;
\* c is [servers, domains]
process_line(c, l) ==
    IF l = << >> THEN c
    ELSE IF l[1] \in {"#", ";"} THEN c
    ELSE IF l[1] = "nameserver"
         THEN [c EXCEPT !.servers = manager_add_dns_server_by_string(c.servers, Tail(l)).list]
    ELSE IF l[1] \in {"domain", "search"}
         THEN [c EXCEPT !.domains = manager_parse_search_domains_and_warn(c.domains, Tail(l)).list]
    ELSE c

\* lines 97 and 108: r of the iteration on the stripped line l, negative when
\* the argument of its directive did not parse
line_r(l) ==
    IF l = << >> THEN 0
    ELSE IF l[1] \in {"#", ";"} THEN 0
    ELSE IF l[1] = "nameserver" THEN manager_add_dns_server_by_string(<< >>, Tail(l)).r
    ELSE IF l[1] \in {"domain", "search"}
         THEN manager_parse_search_domains_and_warn(<< >>, Tail(l)).r
    ELSE 0

RECURSIVE foreach_line_break(_, _, _)
\* lines 87-112 with a break after the warnings of lines 99 and 110: the lines
\* after one that did not parse are not read
foreach_line_break(c, lines, n) ==
    IF n = 0 THEN c
    ELSE IF \E k \in 1..(n - 1) : line_r(lines[k]) < 0
         THEN foreach_line_break(c, lines, n - 1)
    ELSE process_line(foreach_line_break(c, lines, n - 1), lines[n])

RECURSIVE foreach_line(_, _, _)
\* lines 87-112: FOREACH_LINE over the first n lines of the file
foreach_line(c, lines, n) ==
    IF n = 0 THEN c
    ELSE process_line(foreach_line(c, lines, n - 1), lines[n])

\* lines 84-112: mark everything, then read the first n lines of the file
read_lines(srv, dom, lines, n) ==
    foreach_line([servers |-> mark_all(srv), domains |-> mark_all(dom)], lines, n)

\* lines 114-141 with line 114 storing the later of the two timestamps
finish_latest(c, tt, scope) ==
    LET s == unlink_marked(c.servers)
        d == unlink_marked(c.domains)
    IN  [mtime |-> IF tt > resolv_conf_mtime THEN tt ELSE resolv_conf_mtime,
         servers |-> s, domains |-> d,
         current |-> manager_set_dns_server(s),
         flush |-> scope,
         unlinked |-> (Len(c.servers) - Len(s)) + (Len(c.domains) - Len(d))]

\* lines 114-141 without lines 119-120: nothing is swept
finish_nosweep(c, tt, scope) ==
    [mtime |-> tt, servers |-> c.servers, domains |-> c.domains,
     current |-> manager_set_dns_server(c.servers),
     flush |-> scope,
     unlinked |-> 0]

\* lines 114-141 without line 114: the timestamp is not stored
finish_nostore(c, tt, scope) ==
    LET s == unlink_marked(c.servers)
        d == unlink_marked(c.domains)
    IN  [mtime |-> resolv_conf_mtime, servers |-> s, domains |-> d,
         current |-> manager_set_dns_server(s),
         flush |-> scope,
         unlinked |-> (Len(c.servers) - Len(s)) + (Len(c.domains) - Len(d))]

\* lines 114-141 without line 130: the selection stays what it was
finish_keepcurrent(c, tt, scope) ==
    LET s == unlink_marked(c.servers)
        d == unlink_marked(c.domains)
    IN  [mtime |-> tt, servers |-> s, domains |-> d,
         current |-> current_dns_server,
         flush |-> scope,
         unlinked |-> (Len(c.servers) - Len(s)) + (Len(c.domains) - Len(d))]

\* lines 114-141 with the cache flushed only when the sweep removed something
finish_flushonchange(c, tt, scope) ==
    LET s == unlink_marked(c.servers)
        d == unlink_marked(c.domains)
    IN  [mtime |-> tt, servers |-> s, domains |-> d,
         current |-> manager_set_dns_server(s),
         flush |-> scope /\ (Len(c.servers) - Len(s)) + (Len(c.domains) - Len(d)) > 0,
         unlinked |-> (Len(c.servers) - Len(s)) + (Len(c.domains) - Len(d))]

\* lines 114-141: the end of a cycle that read the file to its end:
\* the new values of the manager fields
finish(c, tt, scope) ==
    LET s == unlink_marked(c.servers)
        d == unlink_marked(c.domains)
    IN  [mtime |-> tt, servers |-> s, domains |-> d,
         current |-> manager_set_dns_server(s),
         flush |-> scope,
         unlinked |-> (Len(c.servers) - Len(s)) + (Len(c.domains) - Len(d))]

\* lines 143-146 with the sweep of lines 119-120 in the place of unlink_all
clear_sweep(srv, dom) ==
    [servers |-> unlink_marked(srv), domains |-> unlink_marked(dom),
     unlinked |-> (Len(srv) - Len(unlink_marked(srv))) + (Len(dom) - Len(unlink_marked(dom)))]

\* lines 143-146, label clear
clear(srv, dom) ==
    [servers |-> unlink_all(srv), domains |-> unlink_all(dom),
     unlinked |-> (Len(srv) - Len(unlink_all(srv))) + (Len(dom) - Len(unlink_all(dom)))]

\* where control goes when manager_read_resolv_conf called by c returns
AfterRead(c) == IF c = "write" THEN "w_compile" ELSE "idle"

\* the call of manager_read_resolv_conf by c
R_call(c) ==
    /\ pc = "idle"
    /\ pc' = "r_stat" /\ caller' = c
    /\ UNCHANGED << t, f, read_exit, read_ret, flushed, n_unlinked >>
    /\ UNCHANGED manager_vars

\* a return of manager_read_resolv_conf that touches nothing (return 0)
ReadNoop(c, how) ==
    /\ pc' = AfterRead(c)
    /\ read_exit' = how /\ read_ret' = 0 /\ flushed' = FALSE /\ n_unlinked' = 0
    /\ t' = 0 /\ f' = NoFile
    /\ UNCHANGED manager_vars

\* goto clear, and at the label "return 0" instead of "return r"
ReadClear_success(c, how, e, srv, dom) ==
    LET cl == clear(srv, dom) IN
    /\ pc' = AfterRead(c)
    /\ dns_servers' = cl.servers /\ search_domains' = cl.domains
    /\ read_exit' = how /\ read_ret' = 0 /\ flushed' = FALSE
    /\ n_unlinked' = cl.unlinked
    /\ t' = 0 /\ f' = NoFile
    /\ UNCHANGED << read_resolv_conf, resolv_conf_mtime, current_dns_server, unicast_scope >>

\* goto clear with r = -e, the collections being srv and dom at that point
ReadClear(c, how, e, srv, dom) ==
    LET cl == clear(srv, dom) IN
    /\ pc' = AfterRead(c)
    /\ dns_servers' = cl.servers /\ search_domains' = cl.domains
    /\ read_exit' = how /\ read_ret' = -e /\ flushed' = FALSE
    /\ n_unlinked' = cl.unlinked
    /\ t' = 0 /\ f' = NoFile
    /\ UNCHANGED << read_resolv_conf, resolv_conf_mtime, current_dns_server, unicast_scope >>

\* lines 47-68: from the entry to the decision to open the file
R_stat ==
    LET st == Resolve(etc, priv) IN
    /\ pc = "r_stat"
    /\ IF ~read_resolv_conf THEN ReadNoop(caller, "off")
       ELSE IF st.kind = "absent" THEN ReadNoop(caller, "absent")
       ELSE IF st.kind = "inaccessible"
            THEN \E e \in Errnos :
                    ReadClear(caller, "stat_failed", e, dns_servers, search_domains)
       ELSE IF SeenAlready(st.mtime, resolv_conf_mtime) THEN ReadNoop(caller, "same_mtime")
       ELSE IF IsOwnFile(st, priv) THEN ReadNoop(caller, "alias")
       ELSE /\ pc' = "r_open" /\ t' = st.mtime
            /\ UNCHANGED << f, read_exit, read_ret, flushed, n_unlinked >>
            /\ UNCHANGED manager_vars
    /\ UNCHANGED caller

\* lines 70-82: fopen() and fstat()
R_open ==
    LET st == Resolve(etc, priv) IN
    /\ pc = "r_open"
    /\ \/ /\ st.kind = "absent"
          /\ ReadNoop(caller, "vanished")
       \/ /\ st.kind # "absent"
          /\ \E e \in Errnos : ReadClear(caller, "open_failed", e, dns_servers, search_domains)
       \/ /\ st.kind = "file"
          /\ \E e \in Errnos : ReadClear(caller, "fstat_failed", e, dns_servers, search_domains)
       \/ /\ st.kind = "file"
          /\ pc' = "r_read" /\ f' = st
          /\ UNCHANGED << t, read_exit, read_ret, flushed, n_unlinked >>
          /\ UNCHANGED manager_vars
    /\ UNCHANGED caller

\* lines 84-141 and 143-146: the cycle proper, to the return
R_read ==
    /\ pc = "r_read"
    /\ \/ LET fin == finish(read_lines(dns_servers, search_domains, f.content, Len(f.content)),
                            t, unicast_scope)
          IN  /\ pc' = AfterRead(caller)
              /\ resolv_conf_mtime' = fin.mtime
              /\ dns_servers' = fin.servers /\ search_domains' = fin.domains
              /\ current_dns_server' = fin.current
              /\ flushed' = fin.flush /\ n_unlinked' = fin.unlinked
              /\ read_exit' = "parsed" /\ read_ret' = 0
              /\ t' = 0 /\ f' = NoFile
              /\ UNCHANGED << read_resolv_conf, unicast_scope >>
       \/ \E n \in 0..Len(f.content) : \E e \in Errnos :
            LET c == read_lines(dns_servers, search_domains, f.content, n)
            IN  ReadClear(caller, "read_failed", e, c.servers, c.domains)
    /\ UNCHANGED caller

----------------------------------------------------------------------------
(* The writer: write_resolv_conf_server, write_resolv_conf_search,         *)
(* write_resolv_conf_contents                                              *)

\* s->server_string of a server that has none
NullString == "(null)"

TooManyServers ==
    << "#", "Too many DNS servers configured, the following entries may be ignored." >>
TooManyDomains == "# Too many search domains configured, remaining ones ignored."
TooLong == "# Total length of all search domains is too long, remaining ones ignored."

\* names of search domains that are 10 resp. 130 characters long
ShortNames == << "s1", "s2", "s3", "s4", "s5", "s6", "s7", "s8", "s9" >>
LongNames == << "L1", "L2", "L3", "L4", "L5", "L6", "L7", "L8", "L9" >>
ServerStrings == << "n1", "n2", "n3", "n4", "n5", "n6", "n7" >>

strlen(d) ==
    IF \E i \in 1..Len(LongNames) : LongNames[i] = d THEN 130
    ELSE IF \E i \in 1..Len(ShortNames) : ShortNames[i] = d THEN 10
    ELSE 1

\* lines 149-166 with a return after the warning: servers past MAXNS are left out
write_resolv_conf_server_truncating(s, w) ==
    IF s = NullString THEN w
    ELSE IF w.count >= MAXNS
         THEN [out |-> IF w.count = MAXNS THEN Append(w.out, TooManyServers) ELSE w.out,
               count |-> w.count + 1]
    ELSE [out |-> Append(w.out, << "nameserver", s >>), count |-> w.count + 1]

\* lines 149-166; w is [out, count], out the lines written so far
write_resolv_conf_server(s, w) ==
    IF s = NullString THEN w
    ELSE [out |-> (IF w.count = MAXNS THEN Append(w.out, TooManyServers) ELSE w.out)
                  \o << << "nameserver", s >> >>,
          count |-> w.count + 1]

\* lines 168-193; w is [line, count, length], line the words written so far
write_resolv_conf_search(domain, w) ==
    IF w.count >= MAXDNSRCH \/ w.length + strlen(domain) > 256
    THEN [w EXCEPT !.line = @ \o (IF w.count = MAXDNSRCH THEN << TooManyDomains >> ELSE << >>)
                              \o (IF w.length <= 256 THEN << TooLong >> ELSE << >>)]
    ELSE [line |-> Append(w.line, domain),
          count |-> w.count + 1,
          length |-> w.length + strlen(domain)]

RECURSIVE foreach_server(_, _, _)
\* lines 210-211: ORDERED_SET_FOREACH over the first n servers
foreach_server(w, list, n) ==
    IF n = 0 THEN w ELSE write_resolv_conf_server(list[n], foreach_server(w, list, n - 1))

RECURSIVE foreach_domain(_, _, _)
\* lines 219-220: ORDERED_SET_FOREACH over the first n domains
foreach_domain(w, list, n) ==
    IF n = 0 THEN w ELSE write_resolv_conf_search(list[n], foreach_domain(w, list, n - 1))

\* lines 198-202
Header ==
    << << "#", "This file is managed by systemd-resolved(8). Do not edit." >>,
       << "#" >>,
       << "#", "Third party programs must not access this file directly, but" >>,
       << "#", "only through the symlink at /etc/resolv.conf. To manage" >>,
       << "#", "resolv.conf(5) in a different way, replace the symlink by a" >>,
       << "#", "static file or a different symlink." >>,
       << >> >>

\* lines 204-212
ServerLines(list) ==
    IF list = << >> THEN << << "#", "No DNS servers known." >> >>
    ELSE foreach_server([out |-> << >>, count |-> 0], list, Len(list)).out

\* lines 214-222
SearchLines(list) ==
    IF list = << >> THEN << >>
    ELSE << foreach_domain([line |-> << "search" >>, count |-> 0, length |-> 0],
                           list, Len(list)).line >>

\* lines 195-225: everything the function puts into f
write_resolv_conf_contents(srv, dom) == Header \o ServerLines(srv) \o SearchLines(dom)


----------------------------------------------------------------------------
(* manager_write_resolv_conf *)

RECURSIVE ordered_set(_, _)
\* the addresses of the first n records of list as an OrderedSet: in order,
\* each once
ordered_set(list, n) ==
    IF n = 0 THEN << >>
    ELSE LET before == ordered_set(list, n - 1)
         IN  IF \E i \in 1..Len(before) : before[i] = list[n].addr
             THEN before ELSE Append(before, list[n].addr)

\* manager_compile_dns_servers(m, &dns)
manager_compile_dns_servers(list) == ordered_set(list, Len(list))
\* manager_compile_search_domains(m, &domains)
manager_compile_search_domains(list) == ordered_set(list, Len(list))

\* a regular file; complete says that all of its content was written and
\* flushed without error
File(mt, content, ino, complete) ==
    [kind |-> "file", mtime |-> mt, content |-> content, ino |-> ino, complete |-> complete]

\* lines 257-258 without the test of r: the file is renamed whatever the write did
AfterWrite_unchecked(r) == "w_rename"

\* lines 257-265 without the rename(): a successful write returns at once
AfterWrite_norename(r) == IF r < 0 THEN "w_fail" ELSE "w_ret"

\* lines 257-258 and 260-263: where control goes with the result r of the
\* step before
AfterWrite(r) == IF r < 0 THEN "w_fail" ELSE "w_rename"
AfterRename(r) == IF r < 0 THEN "w_fail" ELSE "w_ret"

\* line 268 left out: the published file stays
unlink_private_kept(p, ok) == p

\* line 268: (void) unlink(PRIVATE_RESOLV_CONF); ok says whether unlink()
\* succeeded, which the code does not look at: when it failed the file stays
unlink_private(p, ok) == IF ok THEN NoFile ELSE p

\* line 269 left out: the temporary file stays
unlink_temp_kept(tmp, ok) == tmp

\* line 269: (void) unlink(temp_path); ok as above
unlink_temp(tmp, ok) == IF ok THEN NoFile ELSE tmp

\* the results unlink() can have on path entry e: it can fail on a file that
\* is there (EACCES, EROFS, EIO ...) and then leaves it; on a path that holds
\* nothing it leaves nothing whatever it returns
unlink_results(e) == IF FileRec(e) THEN BOOLEAN ELSE {TRUE}

\* lines 236-239: the call, and in it the call of manager_read_resolv_conf
W_start ==
    /\ R_call("write")
    /\ old_priv' = priv /\ observed' = NotRead /\ rerun' = quiet
    /\ unlink_failed' = {}
    /\ UNCHANGED << etc, priv, temp, dns, domains, r_write, w_failed, write_ret, quiet >>

\* lines 241-248
W_compile ==
    /\ pc = "w_compile"
    /\ \/ \E e \in Errnos :
            /\ r_write' = -e /\ w_failed' = "compile" /\ pc' = "w_ret"
            /\ UNCHANGED << dns, domains >>
       \/ /\ dns' = manager_compile_dns_servers(dns_servers)
          /\ domains' = manager_compile_search_domains(search_domains)
          /\ pc' = "w_create"
          /\ UNCHANGED << r_write, w_failed >>
    /\ UNCHANGED << etc, priv, temp, caller, t, f, read_exit, read_ret, flushed,
                    n_unlinked, write_ret, old_priv, observed, quiet, rerun,
                    unlink_failed >>
    /\ UNCHANGED manager_vars

\* lines 250-254: fopen_temporary_label() and fchmod()
W_create ==
    /\ pc = "w_create"
    /\ \/ \E e \in Errnos :
            /\ r_write' = -e /\ w_failed' = "create" /\ pc' = "w_ret"
            /\ UNCHANGED temp
       \/ \E mt \in 1..MaxTime :
            /\ temp' = File(mt, << >>, "tmp", FALSE)
            /\ pc' = "w_write"
            /\ UNCHANGED << r_write, w_failed >>
    /\ UNCHANGED << etc, priv, dns, domains, caller, t, f, read_exit, read_ret, flushed,
                    n_unlinked, write_ret, old_priv, observed, quiet, rerun,
                    unlink_failed >>
    /\ UNCHANGED manager_vars

\* lines 256-258: write_resolv_conf_contents(); when it fails only the first
\* n lines have reached the file (the code never looks at what did: the
\* shortest and the longest partial file stand for all of them)
W_write ==
    LET all == write_resolv_conf_contents(dns, domains) IN
    /\ pc = "w_write"
    /\ \/ /\ temp' = [temp EXCEPT !.content = all, !.complete = TRUE]
          /\ r_write' = 0
          /\ pc' = AfterWrite(0)
          /\ UNCHANGED w_failed
       \/ \E n \in {0, Len(all) - 1} : \E e \in Errnos :
            /\ temp' = [temp EXCEPT !.content = SubSeq(all, 1, n)]
            /\ r_write' = -e
            /\ pc' = AfterWrite(-e)
            /\ w_failed' = "write"
    /\ UNCHANGED << etc, priv, dns, domains, caller, t, f, read_exit, read_ret, flushed,
                    n_unlinked, write_ret, old_priv, observed, quiet, rerun,
                    unlink_failed >>
    /\ UNCHANGED manager_vars

\* lines 260-263: rename(temp_path, PRIVATE_RESOLV_CONF)
W_rename ==
    /\ pc = "w_rename"
    /\ \/ /\ priv' = [temp EXCEPT !.ino = "own"]
          /\ temp' = NoFile
          /\ r_write' = 0
          /\ pc' = AfterRename(0)
          /\ UNCHANGED w_failed
       \/ \E e \in Errnos :
            /\ r_write' = -e
            /\ pc' = AfterRename(-e)
            /\ w_failed' = "rename"
            /\ UNCHANGED << priv, temp >>
    /\ UNCHANGED << etc, dns, domains, caller, t, f, read_exit, read_ret, flushed,
                    n_unlinked, write_ret, old_priv, observed, quiet, rerun,
                    unlink_failed >>
    /\ UNCHANGED manager_vars

\* line 268
W_fail ==
    /\ pc = "w_fail"
    /\ \E ok \in unlink_results(priv) :
          /\ priv' = unlink_private(priv, ok)
          /\ unlink_failed' = IF ok THEN unlink_failed ELSE unlink_failed \cup {"private"}
    /\ pc' = "w_fail2"
    /\ UNCHANGED << etc, temp, dns, domains, r_write, w_failed, caller, t, f, read_exit,
                    read_ret, flushed, n_unlinked, write_ret, old_priv, observed, quiet,
                    rerun >>
    /\ UNCHANGED manager_vars

\* line 269
W_fail2 ==
    /\ pc = "w_fail2"
    /\ \E ok \in unlink_results(temp) :
          /\ temp' = unlink_temp(temp, ok)
          /\ unlink_failed' = IF ok THEN unlink_failed ELSE unlink_failed \cup {"temp"}
    /\ pc' = "w_ret"
    /\ UNCHANGED << etc, priv, dns, domains, r_write, w_failed, caller, t, f, read_exit,
                    read_ret, flushed, n_unlinked, write_ret, old_priv, observed, quiet,
                    rerun >>
    /\ UNCHANGED manager_vars

\* lines 244, 248, 252, 265, 270: return r.  The locals die with the call:
\* temp_path is freed (line 232), so that a file which a failed unlink() left
\* at it is at no path the program knows any more; unlink_failed keeps the
\* record of it until the next call
W_return ==
    /\ pc = "w_ret"
    /\ pc' = "idle"
    /\ write_ret' = r_write
    /\ quiet' = (r_write = 0)
    /\ dns' = << >> /\ domains' = << >> /\ r_write' = 0 /\ w_failed' = "none"
    /\ old_priv' = NoFile /\ observed' = NotRead /\ rerun' = FALSE
    /\ temp' = NoFile
    /\ UNCHANGED << etc, priv, caller, t, f, read_exit, read_ret, flushed,
                    n_unlinked, unlink_failed >>
    /\ UNCHANGED manager_vars

\* manager_read_resolv_conf called on its own
R_start ==
    /\ R_call("read")
    /\ quiet' = FALSE
    /\ UNCHANGED << etc, priv, temp, dns, domains, r_write, w_failed, unlink_failed, write_ret,
                    old_priv, observed, rerun >>

\* the steps of manager_read_resolv_conf
R_step ==
    /\ (R_stat \/ R_open \/ R_read)
    /\ UNCHANGED << etc, priv, temp, dns, domains, r_write, w_failed, unlink_failed, write_ret,
                    old_priv, observed, quiet, rerun >>

----------------------------------------------------------------------------
(* The environment *)

\* the files other programs put at /etc/resolv.conf
BasicContents ==
    { << << "nameserver", "A" >> >>,
      << << "nameserver", "C" >>, << "search", "x" >> >> }

Contents ==
    BasicContents \cup
    { << << "#", "nameserver", "C" >>, << "nameserver", "A" >>, << "options", "y" >>,
         << "nameserver", "A" >>, << "domain", "y" >> >>,
      << << "nameserver", "bad" >>, << "nameserver", "B" >>, << "search", "x", "b@d", "y" >> >>,
      << << "search", "y", "z" >>, << "nameserver", "C" >>, << "nameserver", "A", "C" >> >> }

\* what /etc/resolv.conf can be: missing, unreachable (stat() and open() fail
\* with something other than ENOENT), a link to PRIVATE_RESOLV_CONF, or a
\* file of its own with one of the contents cs
EtcStates(cs) ==
    { NoFile, [kind |-> "inaccessible"], [kind |-> "alias"] }
    \cup { File(mt, c, "ext", TRUE) : mt \in 1..MaxTime, c \in cs }

\* another program replaces, removes or relinks /etc/resolv.conf.  The two
\* functions look at the path in their first two steps only (stat(), fopen());
\* later they work on the open handle, so that a change made during a later
\* step is the same as that change made right after it
ExternalEdit(cs) ==
    /\ pc \in {"idle", "r_open"}
    /\ \E e \in EtcStates(cs) \ {etc} : etc' = e
    /\ quiet' = FALSE
    /\ UNCHANGED << priv, temp, pc, caller, t, f, dns, domains, r_write, w_failed,
                    unlink_failed, read_exit,
                    read_ret, flushed, n_unlinked, write_ret, old_priv, observed, rerun >>
    /\ UNCHANGED manager_vars

EnvEdit == ExternalEdit(BasicContents)

EnvEditAny == ExternalEdit(Contents)

\* another program reads PRIVATE_RESOLV_CONF while the writer runs
Reader ==
    /\ pc \in {"w_compile", "w_create", "w_write", "w_rename", "w_fail", "w_fail2", "w_ret"}
    /\ observed # priv
    /\ observed' = priv
    /\ UNCHANGED << etc, priv, temp, pc, caller, t, f, dns, domains, r_write, w_failed,
                    unlink_failed, read_exit,
                    read_ret, flushed, n_unlinked, write_ret, old_priv, quiet, rerun >>
    /\ UNCHANGED manager_vars

\* another part of the daemon adds or drops a server of other provenance
OtherServer ==
    /\ pc = "idle"
    /\ IF \E i \in 1..Len(dns_servers) : dns_servers[i] = Record("B", "other")
       THEN dns_servers' = Filter(dns_servers, LAMBDA rec : rec # Record("B", "other"))
       ELSE /\ "B" \notin AddrsOf(dns_servers)
            /\ dns_servers' = Append(dns_servers, Record("B", "other"))
    /\ quiet' = FALSE
    /\ UNCHANGED << read_resolv_conf, resolv_conf_mtime, search_domains,
                    current_dns_server, unicast_scope >>
    /\ UNCHANGED << etc, priv, temp, pc, caller, t, f, dns, domains, r_write, w_failed,
                    unlink_failed, read_exit,
                    read_ret, flushed, n_unlinked, write_ret, old_priv, observed, rerun >>

----------------------------------------------------------------------------
(* Specifications *)

Init ==
    /\ read_resolv_conf \in BOOLEAN
    /\ resolv_conf_mtime = 0
    /\ \/ dns_servers = << >> /\ search_domains = << >>
       \/ dns_servers = << Record("B", "other") >>
          /\ search_domains = << Record("z", "other") >>
    /\ current_dns_server = "none"
    /\ unicast_scope = TRUE
    /\ etc = NoFile /\ priv = NoFile /\ temp = NoFile
    /\ pc = "idle" /\ caller = "read" /\ t = 0 /\ f = NoFile
    /\ dns = << >> /\ domains = << >> /\ r_write = 0 /\ w_failed = "none"
    /\ unlink_failed = {}
    /\ read_exit = "none" /\ read_ret = 0 /\ flushed = FALSE /\ n_unlinked = 0
    /\ write_ret = 0 /\ old_priv = NoFile /\ observed = NotRead
    /\ quiet = FALSE /\ rerun = FALSE

Next ==
    \/ R_start
    \/ R_step
    \/ W_start
    \/ W_compile
    \/ W_create
    \/ W_write
    \/ W_rename
    \/ W_fail
    \/ W_fail2
    \/ W_return
    \/ EnvEdit
    \/ Reader

Spec == Init /\ [][Next]_vars

\* manager_read_resolv_conf alone, called again and again while other programs
\* change /etc/resolv.conf; PRIVATE_RESOLV_CONF is a file written earlier
InitRead ==
    /\ read_resolv_conf \in BOOLEAN
    /\ resolv_conf_mtime = 0
    /\ dns_servers = << >>
    /\ search_domains \in { << >>, << Record("z", "other") >> }
    /\ current_dns_server = "none"
    /\ unicast_scope \in BOOLEAN
    /\ etc = NoFile /\ temp = NoFile
    /\ priv \in { NoFile, File(1, write_resolv_conf_contents(<< "A" >>, << >>), "own", TRUE) }
    /\ pc = "idle" /\ caller = "read" /\ t = 0 /\ f = NoFile
    /\ dns = << >> /\ domains = << >> /\ r_write = 0 /\ w_failed = "none"
    /\ unlink_failed = {}
    /\ read_exit = "none" /\ read_ret = 0 /\ flushed = FALSE /\ n_unlinked = 0
    /\ write_ret = 0 /\ old_priv = NoFile /\ observed = NotRead
    /\ quiet = FALSE /\ rerun = FALSE

NextRead ==
    \/ R_start
    \/ R_step
    \/ EnvEditAny
    \/ OtherServer

SpecRead == InitRead /\ [][NextRead]_vars

\* write_resolv_conf_contents and the publishing steps on server and search
\* domain sequences of every shape: servers with and without a string,
\* domain names of 10 and of 130 characters
ServerSeqs ==
    UNION { { [i \in 1..k |-> IF i \in S THEN NullString ELSE ServerStrings[i]] :
                S \in SUBSET (1..k) } : k \in 0..MaxServers }

DomainSeqs ==
    UNION { { [i \in 1..k |-> IF i \in S THEN LongNames[i] ELSE ShortNames[i]] :
                S \in SUBSET (1..k) } : k \in 0..MaxDomains }

InitWriter ==
    /\ read_resolv_conf = TRUE
    /\ resolv_conf_mtime = 0
    /\ dns_servers = << >> /\ search_domains = << >>
    /\ current_dns_server = "none"
    /\ unicast_scope = TRUE
    /\ etc = NoFile /\ priv = NoFile /\ temp = NoFile
    /\ pc = "w_create" /\ caller = "write" /\ t = 0 /\ f = NoFile
    /\ \/ dns \in ServerSeqs /\ domains \in { << >>, << "x" >> }
       \/ dns \in { << >>, << "n1" >> } /\ domains \in DomainSeqs
    /\ r_write = 0 /\ w_failed = "none" /\ unlink_failed = {}
    /\ read_exit = "absent" /\ read_ret = 0 /\ flushed = FALSE /\ n_unlinked = 0
    /\ write_ret = 0 /\ old_priv = NoFile /\ observed = NotRead
    /\ quiet = FALSE /\ rerun = FALSE

NextWriter ==
    \/ W_create
    \/ W_write
    \/ W_rename
    \/ W_fail
    \/ W_fail2
    \/ W_return

SpecWriter == InitWriter /\ [][NextWriter]_vars

----------------------------------------------------------------------------
(* Properties *)

NoDup(list) == \A i, j \in 1..Len(list) : list[i].addr = list[j].addr => i = j
Others(list) == Filter(list, IsNotSystem)
SystemAddrs(list) == { list[i].addr : i \in { j \in 1..Len(list) : list[j].type = "system" } }
NoneMarked(list) == \A i \in 1..Len(list) : ~list[i].marked

\* the addresses a file declares on well-formed nameserver lines
DeclaredServers(content) ==
    { content[i][2] : i \in { j \in 1..Len(content) :
                                /\ Len(content[j]) = 2
                                /\ content[j][1] = "nameserver"
                                /\ content[j][2] \in Addresses } }

\* the domain names a file declares on domain and search lines
DeclaredDomains(content) ==
    UNION { { content[i][k] : k \in { n \in 2..Len(content[i]) : content[i][n] \in DomainNames } }
            : i \in { j \in 1..Len(content) :
                        /\ Len(content[j]) >= 1
                        /\ content[j][1] \in {"domain", "search"} } }

\* this step is a return of manager_read_resolv_conf
ReadReturns == pc \in {"r_stat", "r_open", "r_read"} /\ pc' \notin {"r_stat", "r_open", "r_read"}

\* the exits of manager_read_resolv_conf that are meant to touch nothing
NoopExits == {"off", "absent", "same_mtime", "alias", "vanished"}
\* its failures before the first line is read
SoftFailures == {"stat_failed", "open_failed", "fstat_failed"}

\* what the running manager_write_resolv_conf is about to publish
NewContent == write_resolv_conf_contents(dns, domains)

\* C1 (as claimed): a cycle that reads the file to its end leaves, in both
\* collections, no address twice, every record of other provenance as it
\* was, and as system records exactly the addresses / domain names the file
\* declares on lines that parse.
C1_Original ==
    [][ (pc = "r_read" /\ ReadReturns /\ read_exit' = "parsed") =>
            /\ NoDup(dns_servers') /\ NoDup(search_domains')
            /\ Others(dns_servers') = Others(dns_servers)
            /\ Others(search_domains') = Others(search_domains)
            /\ SystemAddrs(dns_servers') = DeclaredServers(f.content)
            /\ SystemAddrs(search_domains') = DeclaredDomains(f.content) ]_vars

\* C1 (amended): a cycle that reads the file to its end leaves, in both
\* collections, no address twice, every record of other provenance as it
\* was, and as system records exactly those addresses / domain names the
\* file declares on lines that parse which no record of other provenance
\* holds (a declared address that such a record holds stays with that
\* record and gets no system record); no record stays marked.
C1_MergeCorrect ==
    [][ (pc = "r_read" /\ ReadReturns /\ read_exit' = "parsed") =>
            /\ NoDup(dns_servers') /\ NoDup(search_domains')
            /\ Others(dns_servers') = Others(dns_servers)
            /\ Others(search_domains') = Others(search_domains)
            /\ SystemAddrs(dns_servers')
                 = DeclaredServers(f.content) \ AddrsOf(Others(dns_servers))
            /\ SystemAddrs(search_domains')
                 = DeclaredDomains(f.content) \ AddrsOf(Others(search_domains))
            /\ NoneMarked(dns_servers') /\ NoneMarked(search_domains') ]_vars

\* a cycle has removed the system record that the new file no longer lists,
\* added the one it lists, and kept the record of other provenance
C1_Witness ==
    /\ pc = "idle" /\ read_exit = "parsed" /\ n_unlinked > 0
    /\ dns_servers = << Record("B", "other"), Record("C", "system") >>

\* C2 (as claimed): whatever a concurrent reader of the managed path sees while
\* manager_write_resolv_conf runs is the previously published file or the
\* complete new content.
C2_Original ==
    observed # NotRead =>
        \/ observed = old_priv
        \/ observed.kind = "file" /\ observed.complete /\ observed.content = NewContent

\* C2 (amended): the reader sees the previously published file, or the complete
\* new content, or - once the write or the rename has failed - no file at
\* all, never a partly written file; a new file appears at the managed
\* path only by the rename step, from a temporary file that holds the whole
\* new content, written and flushed without error.
C2_AtomicVisibility ==
    /\ [](observed # NotRead =>
            \/ observed = old_priv
            \/ /\ observed.kind = "file" /\ observed.complete
               /\ observed.content = NewContent /\ pc = "w_ret"
            \/ observed = NoFile /\ w_failed \in {"write", "rename"})
    /\ [][ priv' # priv =>
            \/ /\ pc = "w_rename" /\ temp.kind = "file" /\ temp.complete
               /\ temp.content = NewContent
               /\ priv'.kind = "file" /\ priv'.complete /\ priv'.content = temp.content
            \/ pc = "w_fail" /\ priv' = NoFile ]_vars

\* the reader has seen the new content, which differs from the file published before
C2_Witness ==
    /\ pc = "w_ret" /\ old_priv.kind = "file" /\ observed.kind = "file"
    /\ observed.content = NewContent /\ observed.content # old_priv.content

\* C3 (as claimed): after a failed write the previously published file is as
\* it was and there is no temporary file.
C3_Original ==
    (pc = "w_ret" /\ w_failed = "write") => (priv = old_priv /\ temp = NoFile)

\* C3 (amended): after a failed write both the managed path and the temporary
\* file have been unlinked: there is no file at the managed path (the
\* previously published one is removed) unless that unlink() failed, and
\* then the previously published file is there as it was; there is no
\* temporary file unless its unlink() failed, and then the partly
\* written file is left behind.
C3_FailedWriteUnlinksBoth ==
    (pc = "w_ret" /\ w_failed = "write") =>
        /\ IF "private" \in unlink_failed
           THEN FileRec(priv) /\ priv = old_priv
           ELSE priv = NoFile
        /\ IF "temp" \in unlink_failed
           THEN FileRec(temp) /\ ~temp.complete
           ELSE temp = NoFile

\* a write has failed while a file was published, and both were removed
C3_Witness ==
    /\ pc = "w_ret" /\ w_failed = "write" /\ old_priv.kind = "file"
    /\ unlink_failed = {}
    /\ priv = NoFile /\ temp = NoFile

\* C4: an invocation of manager_read_resolv_conf that finds the file with the
\* modification time it has stored changes no manager field (collections with
\* their marks, stored time, current server), flushes no cache and returns 0.
C4_ReadIdempotent ==
    [][ ( /\ pc = "r_stat" /\ read_resolv_conf
          /\ Resolve(etc, priv).kind = "file"
          /\ Resolve(etc, priv).mtime = resolv_conf_mtime ) =>
            /\ UNCHANGED manager_vars
            /\ flushed' = FALSE /\ read_ret' = 0
            /\ ReadReturns /\ read_exit' = "same_mtime" ]_vars

\* a second invocation on the file that a successful cycle has loaded
C4_Witness ==
    /\ pc = "idle" /\ read_exit = "same_mtime" /\ etc.kind = "file"
    /\ resolv_conf_mtime = etc.mtime
    /\ SystemAddrs(dns_servers) = DeclaredServers(etc.content)
    /\ SystemAddrs(dns_servers) # {}

\* C5 (as claimed): a writer call that directly follows a successful one, with
\* nothing changed in between, creates no temporary file.
C5_Original == rerun => temp = NoFile

\* C5 (amended): such a second call writes again: when none of its steps fails
\* it has renamed a complete temporary file over the managed path, and when
\* its read phase was a no-op the content is that of the first call.
C5_SecondRunRewrites ==
    (rerun /\ pc = "w_ret" /\ w_failed = "none") =>
        /\ temp = NoFile
        /\ old_priv.kind = "file"
        /\ priv.kind = "file" /\ priv.complete /\ priv.content = NewContent
        /\ (read_exit \in NoopExits => priv.content = old_priv.content)

\* the second call has replaced the file of the first by a newer one
C5_Witness ==
    /\ rerun /\ pc = "w_ret" /\ w_failed = "none" /\ read_exit = "same_mtime"
    /\ priv.kind = "file" /\ old_priv.kind = "file" /\ priv.mtime # old_priv.mtime

\* C6: an invocation of manager_read_resolv_conf that finds /etc/resolv.conf to
\* be the managed file (same inode) changes no manager field, flushes no
\* cache and returns 0, whatever the file's content and modification time.
C6_LoopAvoidance ==
    [][ ( /\ pc = "r_stat" /\ priv.kind = "file"
          /\ Resolve(etc, priv).kind = "file"
          /\ Resolve(etc, priv).ino = priv.ino ) =>
            /\ UNCHANGED manager_vars
            /\ flushed' = FALSE /\ read_ret' = 0
            /\ ReadReturns /\ read_exit' \in {"off", "same_mtime", "alias"} ]_vars

\* the link to the managed file was found after a real file had been loaded
C6_Witness ==
    /\ pc = "idle" /\ read_exit = "alias" /\ etc.kind = "alias" /\ priv.kind = "file"
    /\ resolv_conf_mtime > 0 /\ SystemAddrs(dns_servers) # {}

WithString(list) == Filter(list, LAMBDA s : s # NullString)
NameserverLines(content) == Filter(content, LAMBDA l : l # << >> /\ l[1] = "nameserver")
ServerWarnings(content) == Filter(content, LAMBDA l : l = TooManyServers)

\* C7 (as claimed): of more than MAXNS servers the first MAXNS are written,
\* with the warning once, and the others are not.
C7_Original ==
    (pc = "w_rename" /\ Len(WithString(dns)) > MAXNS) =>
        /\ NameserverLines(temp.content)
             = [i \in 1..MAXNS |-> << "nameserver", WithString(dns)[i] >>]
        /\ Len(ServerWarnings(temp.content)) = 1

\* C7 (amended): of more than MAXNS servers every one is written, in order;
\* the warning is written once, between the MAXNS-th and the next.
C7_AllServersWritten ==
    (pc = "w_rename" /\ Len(WithString(dns)) > MAXNS) =>
        LET S == WithString(dns) IN
        /\ Len(temp.content) = Len(Header) + Len(S) + 1 + (IF domains = << >> THEN 0 ELSE 1)
        /\ SubSeq(temp.content, Len(Header) + 1, Len(Header) + Len(S) + 1)
             = [i \in 1..(Len(S) + 1) |->
                    IF i <= MAXNS THEN << "nameserver", S[i] >>
                    ELSE IF i = MAXNS + 1 THEN TooManyServers
                    ELSE << "nameserver", S[i - 1] >>]
        /\ Len(ServerWarnings(temp.content)) = 1

\* five servers were written
C7_Witness ==
    /\ pc = "w_rename" /\ temp.complete /\ Len(dns) = 5 /\ WithString(dns) = dns
    /\ Len(NameserverLines(temp.content)) = 5

\* the domain names on a search line, without the warnings
EmittedDomains(line) == Filter(Tail(line), LAMBDA w : w \notin {TooManyDomains, TooLong})

\* C8: the domains on the search line are a prefix of the sequence.
C8_PrefixCut ==
    (pc = "w_rename" /\ domains # << >>) =>
        LET e == EmittedDomains(temp.content[Len(temp.content)])
        IN  e = SubSeq(domains, 1, Len(e))

\* C9 (as claimed): when creating the temporary file, writing it or renaming
\* it fails, r is negative at the return, there is no temporary file, and
\* the managed path holds no partly written file.
C9_Original ==
    (pc = "w_ret" /\ w_failed \in {"create", "write", "rename"}) =>
        /\ r_write < 0
        /\ temp = NoFile
        /\ (priv.kind = "file" => priv.complete)

\* C9 (amended): when creating the temporary file, writing it or renaming it
\* fails, r is negative at the return and the managed path holds no partly
\* written file: it holds nothing, or the file published before.  The
\* temporary file is gone unless the unlink() of it failed, which is not
\* reported; a failed creation leaves nothing to unlink.
C9_HardWriteFailure ==
    (pc = "w_ret" /\ w_failed \in {"create", "write", "rename"}) =>
        /\ r_write < 0
        /\ (priv.kind = "file" => priv.complete)
        /\ priv = NoFile \/ priv = old_priv
        /\ IF "temp" \in unlink_failed THEN FileRec(temp) ELSE temp = NoFile
        /\ w_failed = "create" => (unlink_failed = {} /\ priv = old_priv)

\* the rename failed while a file was published; the published file was
\* removed, the unlink() of the temporary file failed and left it behind
C9_Witness ==
    /\ pc = "w_ret" /\ w_failed = "rename" /\ r_write < 0
    /\ old_priv.kind = "file" /\ priv = NoFile
    /\ unlink_failed = {"temp"} /\ FileRec(temp) /\ temp.complete

\* C10 (as claimed): a failing stat(), fopen() or fstat() makes
\* manager_read_resolv_conf return 0 with the stored time unchanged.
C10_Original ==
    [][ (ReadReturns /\ read_exit' \in SoftFailures) =>
            (read_ret' = 0 /\ resolv_conf_mtime' = resolv_conf_mtime) ]_vars

\* C10 (amended): it returns the negative errno, with the stored time unchanged.
C10_SoftFailureReturnsError ==
    [][ (ReadReturns /\ read_exit' \in SoftFailures) =>
            (read_ret' < 0 /\ resolv_conf_mtime' = resolv_conf_mtime) ]_vars

\* an fopen() has failed after a file had been loaded
C10_Witness ==
    /\ pc = "idle" /\ read_exit = "open_failed" /\ read_ret < 0
    /\ resolv_conf_mtime > 0

\* the failures of manager_read_resolv_conf: every way to the label clear
FatalExits == SoftFailures \cup {"read_failed"}

\* this step is the return of a cycle that read the file to its end
ParsedReturn == pc = "r_read" /\ ReadReturns /\ read_exit' = "parsed"

\* C11 (as claimed): the stored modification timestamp never decreases.
C11_Original == [][ resolv_conf_mtime' >= resolv_conf_mtime ]_vars

\* C11 (amended): the stored modification timestamp follows the file: a cycle
\* that reads the file to its end stores the timestamp its stat() of the path
\* found, be it newer or older than the stored one, and no other step
\* changes the stored timestamp.
C11_TimestampFollowsFile ==
    [][ IF ParsedReturn
        THEN resolv_conf_mtime' = t /\ t \in 1..MaxTime
        ELSE resolv_conf_mtime' = resolv_conf_mtime ]_vars

\* a cycle is reading a file that is older than the one whose timestamp is stored
C11_Witness ==
    /\ pc = "r_read" /\ f.kind = "file"
    /\ t < resolv_conf_mtime /\ f.mtime < resolv_conf_mtime

\* C12: whenever manager_read_resolv_conf is not executing - before any call,
\* after a no-op, after a cycle that read the file to its end, after a failure
\* at any point - no record of either collection is marked.
C12_MarkedConfined ==
    pc \notin {"r_stat", "r_open", "r_read"} =>
        NoneMarked(dns_servers) /\ NoneMarked(search_domains)

\* a cycle has swept a record that was marked at its start and not reaffirmed,
\* and has left system records in both collections
C12_Witness ==
    /\ pc = "idle" /\ read_exit = "parsed" /\ n_unlinked > 0
    /\ SystemAddrs(dns_servers) # {} /\ SystemAddrs(search_domains) # {}
    /\ NoneMarked(dns_servers) /\ NoneMarked(search_domains)

\* C13: an invocation of manager_read_resolv_conf changes the stored
\* modification timestamp if and only if it reads the file to its end; every
\* no-op exit and every failed stat(), fopen(), fstat() or read leaves it as
\* it was, and so does every step that is not a return.
C13_StoredIffParsed ==
    [][ /\ ReadReturns =>
              /\ read_exit' \in {"parsed"} \cup NoopExits \cup FatalExits
              /\ (read_exit' = "parsed") <=> (resolv_conf_mtime' # resolv_conf_mtime)
        /\ ~ReadReturns => resolv_conf_mtime' = resolv_conf_mtime ]_vars

\* a cycle has read the file to its end and stored its timestamp
C13_Witness ==
    /\ pc = "idle" /\ read_exit = "parsed" /\ read_ret = 0
    /\ etc.kind = "file" /\ resolv_conf_mtime = etc.mtime

\* C14: the timestamp that a cycle stores when it has read the file to its end
\* is the one fstat() of the open file gave, the timestamp of the file whose
\* content was parsed.
C14_RestatStored ==
    [][ ParsedReturn => resolv_conf_mtime' = f.mtime ]_vars

\* C15: a cycle that ends at the label clear - after a failed stat(), fopen()
\* or fstat(), or after a read error with any number of lines already
\* processed - leaves no system record in either collection, whether the
\* record was there before, reaffirmed or added by the lines read; the
\* records of other provenance stay as they were, the stored timestamp is not
\* touched, the cache is not flushed, and the error is returned.
C15_ClearOnFatal ==
    [][ (ReadReturns /\ read_exit' \in FatalExits) =>
            /\ SystemAddrs(dns_servers') = {} /\ SystemAddrs(search_domains') = {}
            /\ dns_servers' = Others(dns_servers)
            /\ search_domains' = Others(search_domains)
            /\ n_unlinked' >= Len(dns_servers) - Len(dns_servers')
                              + Len(search_domains) - Len(search_domains')
            /\ resolv_conf_mtime' = resolv_conf_mtime
            /\ flushed' = FALSE /\ read_ret' < 0 ]_vars

\* a first cycle has added records from the lines it read, then hit a read
\* error and removed them again
C15_Witness ==
    /\ pc = "idle" /\ read_exit = "read_failed" /\ n_unlinked > 0
    /\ resolv_conf_mtime = 0
    /\ SystemAddrs(dns_servers) = {} /\ SystemAddrs(search_domains) = {}

\* the argument of the directive on line l does not parse
FailsToParse(l) ==
    /\ l # << >>
    /\ \/ l[1] = "nameserver" /\ ~(Len(l) = 2 /\ l[2] \in Addresses)
       \/ l[1] \in {"domain", "search"} /\ \E k \in 2..Len(l) : l[k] \notin DomainNames

\* the file without the arguments that do not parse: a nameserver line of that
\* kind becomes an empty line, a domain or search line loses the words that
\* are no domain names
Repaired(content) ==
    [i \in 1..Len(content) |->
        IF ~FailsToParse(content[i]) THEN content[i]
        ELSE IF content[i][1] = "nameserver" THEN << >>
        ELSE << content[i][1] >> \o Filter(Tail(content[i]), LAMBDA w : w \in DomainNames)]

\* C16: a cycle on a file in which the argument of a nameserver, domain or
\* search line does not parse, wherever that line stands, and that meets no
\* read error, ends as the same cycle on the file without those arguments
\* does: every other line has its effect, the marked records are swept, the
\* timestamp is stored and 0 is returned.
C16_ParseFailureNotFatal ==
    [][ (pc = "r_read" /\ ReadReturns /\ read_exit' # "read_failed"
         /\ \E i \in 1..Len(f.content) : FailsToParse(f.content[i])) =>
            LET good == Repaired(f.content)
                c == foreach_line([servers |-> mark_all(dns_servers),
                                   domains |-> mark_all(search_domains)], good, Len(good))
            IN  /\ read_exit' = "parsed" /\ read_ret' = 0
                /\ dns_servers' = unlink_marked(c.servers)
                /\ search_domains' = unlink_marked(c.domains)
                /\ SystemAddrs(dns_servers')
                     = DeclaredServers(f.content) \ AddrsOf(Others(dns_servers))
                /\ resolv_conf_mtime' = t ]_vars

\* a cycle has read a file whose first and whose last line do not parse, and
\* has taken the server of the line in between
C16_Witness ==
    /\ pc = "idle" /\ read_exit = "parsed" /\ read_ret = 0
    /\ etc.kind = "file" /\ resolv_conf_mtime = etc.mtime
    /\ FailsToParse(etc.content[1]) /\ FailsToParse(etc.content[Len(etc.content)])
    /\ SystemAddrs(dns_servers) = DeclaredServers(etc.content)
    /\ SystemAddrs(dns_servers) # {}

RECURSIVE TotalLength(_)
\* the characters of all the domain names of list together
TotalLength(list) == IF list = << >> THEN 0 ELSE strlen(Head(list)) + TotalLength(Tail(list))

\* how often the word w stands on line
Occurrences(line, w) == Len(Filter(line, LAMBDA x : x = w))

\* C17: on the search line each of the two warnings stands at most once, the
\* one about the number of domains only when there are more than MAXDNSRCH
\* domains, the one about the length only when the names together are
\* longer than 256 characters.
C17_OneTimeWarnings ==
    (pc = "w_rename" /\ domains # << >>) =>
        LET line == temp.content[Len(temp.content)] IN
        /\ Occurrences(line, TooManyDomains) <= 1
        /\ Occurrences(line, TooManyDomains) = 1 => Len(domains) > MAXDNSRCH
        /\ Occurrences(line, TooLong) <= 1
        /\ Occurrences(line, TooLong) = 1 => TotalLength(domains) > 256

\* C18: at the end of a cycle that read the file to its end, the selected
\* server is the first record of the server collection as the sweep left it,
\* or none when the collection is empty, whatever was selected before; it
\* is never a record that the sweep removed.
C18_RepointToFirst ==
    [][ ParsedReturn =>
            /\ current_dns_server'
                 = (IF dns_servers' = << >> THEN "none" ELSE dns_servers'[1].addr)
            /\ current_dns_server' \in AddrsOf(dns_servers') \cup {"none"} ]_vars

\* a cycle has swept records and selected the server of the new file, while
\* a record of other provenance stands behind it
C18_Witness ==
    /\ pc = "idle" /\ read_exit = "parsed" /\ n_unlinked > 0
    /\ Len(dns_servers) = 2 /\ dns_servers[1].type = "system"
    /\ dns_servers[2].type = "other"
    /\ current_dns_server = dns_servers[1].addr

\* C19 (as claimed): every invocation of manager_read_resolv_conf that reads
\* the file to its end flushes the cache; a no-op exit and the failure path
\* flush nothing.
C19_Original ==
    [][ ReadReturns =>
            /\ read_exit' = "parsed" => flushed'
            /\ read_exit' \in NoopExits \cup FatalExits => ~flushed' ]_vars

\* C19 (amended): an invocation of manager_read_resolv_conf flushes the cache
\* of the unicast scope exactly when it reads the file to its end - also
\* when the collections after it are those before it - and the manager has
\* a unicast scope; without a unicast scope nothing is flushed; a no-op exit
\* and the failure path flush nothing.
C19_FlushOnEveryParse ==
    [][ ReadReturns =>
            /\ (read_exit' = "parsed" /\ unicast_scope) => flushed'
            /\ (read_exit' = "parsed" /\ dns_servers' = dns_servers
                  /\ search_domains' = search_domains /\ unicast_scope) => flushed'
            /\ read_exit' \in NoopExits \cup FatalExits => ~flushed'
            /\ ~unicast_scope => ~flushed' ]_vars

\* a cycle that swept nothing has flushed the cache of the unicast scope
C19_Witness ==
    /\ pc = "idle" /\ read_exit = "parsed" /\ n_unlinked = 0 /\ flushed
    /\ unicast_scope /\ current_dns_server # "none"

\* C20: an invocation that exits as a no-op because the file has the stored
\* timestamp finds the collections holding what the file declares; in
\* particular, when the invocation before it failed and cleared the
\* collections, it does not leave the server collection without system
\* records while the file declares servers.
C20_NoStaleNoop ==
    [][ ( /\ pc = "r_stat" /\ ReadReturns /\ read_exit' = "same_mtime"
          /\ read_exit \in FatalExits ) =>
            ~ ( /\ SystemAddrs(dns_servers') = {}
                /\ DeclaredServers(Resolve(etc, priv).content)
                     \ AddrsOf(Others(dns_servers')) # {} ) ]_vars

====
